---------------------------- MODULE Spec2Model ----------------------------
(***************************************************************************)
(* Model of the Cereal Box Style MCP server                                *)
(* (src/src/cereal_box_style_mcp/server.py).                               *)
(*                                                                         *)
(* The server is a set of tools called one at a time.  The state is the    *)
(* loaded Rule Store, the skeleton the caller holds (refine_component      *)
(* mutates it in place), and the tool call with what it returned or        *)
(* raised.  A caller's step places a call; the tool's step runs it.        *)
(*                                                                         *)
(* Python values are tagged records:                                       *)
(*   None, str, int, float (kept as its literal), list, dict.              *)
(* A dict is the sequence of its <<key, value>> pairs in insertion order,  *)
(* which is what Python's dict iterates in and what str() prints.          *)
(***************************************************************************)
EXTENDS Integers, Sequences, FiniteSets, TLC

VARIABLES
    CATEGORIES,   \* the loaded categories.json: dict id -> rules
    skeleton,     \* the skeleton object the caller holds, or NoSkeleton
    pc,           \* "idle", or "called" while a tool call is to be run
    call,         \* the tool call: its name and arguments
    ret,          \* what the call returned or raised, once it has run
    history       \* component names of the refine calls that returned, in order

vars == <<CATEGORIES, skeleton, pc, call, ret, history>>

-----------------------------------------------------------------------------
(* Python values *)

None == [t |-> "None"]
S(s) == [t |-> "str", s |-> s]
N(n) == [t |-> "int", n |-> n]
F(lit) == [t |-> "float", lit |-> lit]
L(items) == [t |-> "list", items |-> items]
D(pairs) == [t |-> "dict", pairs |-> pairs]

\* A field the parser left unset.
Absent == "<absent>"

Range(seq) == {seq[i] : i \in 1..Len(seq)}

\* list(d.keys())
keys(d) == [i \in 1..Len(d.pairs) |-> d.pairs[i][1]]

\* k in d
has(d, k) == \E i \in 1..Len(d.pairs) : d.pairs[i][1] = k

\* d[k], for a key that is present
item(d, k) == d.pairs[CHOOSE i \in 1..Len(d.pairs) : d.pairs[i][1] = k][2]

\* d.get(k, default)
get(d, k, default) == IF has(d, k) THEN item(d, k) ELSE default

\* d[k] = v: an existing key keeps its place, a new key goes last
setitem(d, k, v) ==
    IF has(d, k)
    THEN D([i \in 1..Len(d.pairs) |->
              IF d.pairs[i][1] = k THEN <<k, v>> ELSE d.pairs[i]])
    ELSE D(Append(d.pairs, <<k, v>>))

\* sep.join(strs)
RECURSIVE join(_, _)
join(sep, strs) ==
    IF Len(strs) = 0 THEN ""
    ELSE IF Len(strs) = 1 THEN strs[1]
    ELSE strs[1] \o sep \o join(sep, Tail(strs))

\* repr(v): how Python prints a value inside a container
RECURSIVE repr(_)
repr(v) ==
    CASE v.t = "None" -> "None"
      [] v.t = "str" -> "'" \o v.s \o "'"
      [] v.t = "int" -> ToString(v.n)
      [] v.t = "float" -> v.lit
      [] v.t = "list" ->
            "[" \o join(", ", [i \in 1..Len(v.items) |-> repr(v.items[i])]) \o "]"
      [] v.t = "dict" ->
            "{" \o join(", ", [i \in 1..Len(v.pairs) |->
                     "'" \o v.pairs[i][1] \o "': " \o repr(v.pairs[i][2])]) \o "}"

\* str(v): a str is itself, anything else prints as its repr
str(v) == IF v.t = "str" THEN v.s ELSE repr(v)

UpperToLower ==
    "A" :> "a" @@ "B" :> "b" @@ "C" :> "c" @@ "D" :> "d" @@ "E" :> "e" @@
    "F" :> "f" @@ "G" :> "g" @@ "H" :> "h" @@ "I" :> "i" @@ "J" :> "j" @@
    "K" :> "k" @@ "L" :> "l" @@ "M" :> "m" @@ "N" :> "n" @@ "O" :> "o" @@
    "P" :> "p" @@ "Q" :> "q" @@ "R" :> "r" @@ "S" :> "s" @@ "T" :> "t" @@
    "U" :> "u" @@ "V" :> "v" @@ "W" :> "w" @@ "X" :> "x" @@ "Y" :> "y" @@
    "Z" :> "z"

\* s.lower(), character by character
RECURSIVE lower(_)
lower(s) ==
    IF Len(s) = 0 THEN ""
    ELSE IF Len(s) = 1
    THEN (IF s \in DOMAIN UpperToLower THEN UpperToLower[s] ELSE s)
    ELSE LET half == Len(s) \div 2
         IN  lower(SubSeq(s, 1, half)) \o lower(SubSeq(s, half + 1, Len(s)))

\* k in s, for strings
contains(s, k) ==
    \E i \in 1..(Len(s) - Len(k) + 1) : SubSeq(s, i, i + Len(k) - 1) = k

-----------------------------------------------------------------------------
(* The Rule Store: data/categories.json and data/templates.json *)

StrList(strs) == L([i \in 1..Len(strs) |-> S(strs[i])])

Category(description, dna, subjects, moods, keywords, negatives) ==
    D(<< <<"description", S(description)>>,
         <<"visual_dna", StrList(dna)>>,
         <<"ideal_subjects", StrList(subjects)>>,
         <<"compatible_moods", StrList(moods)>>,
         <<"trigger_keywords", StrList(keywords)>>,
         <<"negative_prompts", StrList(negatives)>> >>)

\* The seven categories in their declaration order.  mascot_theater has a
\* subject rule and a typography rule; transparent_honest declares no
\* trigger_keywords; "art" is a substring of "party".
CategoriesJson ==
    D(<< <<"mascot_theater",
           D(Category("Cartoon characters", <<"cartoon character", "bold outlines">>,
                      <<"animal", "character">>, <<"playful", "excited">>,
                      <<"cartoon", "mascot", "fun">>, <<"photorealistic", "muted">>).pairs
             \o << <<"subject_rules", D(<< <<"animal", S("cartoon animal mascot")>> >>)>>,
                   <<"typography", S("bubbly curved typography")>> >>)>>,
         <<"health_halo",
           Category("Minimalist natural photography", <<"soft light">>,
                    <<"food", "plant">>, <<"calm">>,
                    <<"natural", "organic">>, <<"neon">>)>>,
         <<"nostalgia_revival",
           Category("Vintage screen print", <<"halftone", "limited palette">>,
                    <<"human">>, <<"nostalgic", "calm">>,
                    <<"retro", "vintage", "art">>, <<"3d render">>)>>,
         <<"premium_disruptor",
           Category("Luxury minimal", <<"black background", "metallic">>,
                    <<"object", "food">>, <<"calm", "serious">>,
                    <<"luxury", "gold">>, <<"cartoon", "clutter">>)>>,
         <<"kid_chaos",
           Category("Neon explosion", <<"neon", "extreme angles">>,
                    <<"animal", "character">>, <<"excited", "playful">>,
                    <<"neon", "extreme", "party">>, <<"minimal", "muted">>)>>,
         <<"transparent_honest",
           D(<< <<"description", S("Clinical infographics")>>,
                <<"visual_dna", StrList(<<"labeled components">>)>>,
                <<"ideal_subjects", StrList(<<"food">>)>>,
                <<"compatible_moods", StrList(<<"serious">>)>>,
                <<"negative_prompts", StrList(<<"fantasy">>)>> >>)>>,
         <<"adventure_fantasy",
           Category("Cinematic epic scale", <<"cinematic", "magical effects">>,
                    <<"human", "animal">>, <<"excited">>,
                    <<"epic", "magic", "Dragon">>, <<"flat", "clinical">>)>> >>)

\* The same store with one keyword listed twice in kid_chaos.
CategoriesJsonRepeated ==
    setitem(CategoriesJson, "kid_chaos",
            setitem(item(CategoriesJson, "kid_chaos"), "trigger_keywords",
                    StrList(<<"neon", "extreme", "party", "neon">>)))

RuleStores == {CategoriesJson, CategoriesJsonRepeated}

-----------------------------------------------------------------------------
(* parse_prompt's output: the structure the other tools take *)

Opt(k, v) == IF v = Absent THEN <<>> ELSE << <<k, S(v)>> >>

\* The structure of parse_prompt's docstring: subject, action, setting,
\* objects, colors, mood, semantic_weights; a field with no match is unset.
ParsedOf(type, emotion, energy, attributes, weights) ==
    D(<< <<"subject", D(Opt("type", type)
                          \o << <<"attributes", StrList(attributes)>> >>)>>,
         <<"action", D(Opt("energy_level", energy))>>,
         <<"setting", D(<<>>)>>,
         <<"objects", L(<<>>)>>,
         <<"colors", L(<<>>)>>,
         <<"mood", D(Opt("emotion", emotion))>>,
         <<"semantic_weights", weights>> >>)

WeightsOf(subject, action, setting) ==
    D(<< <<"subject", N(subject)>>, <<"action", N(action)>>,
         <<"setting", N(setting)>> >>)

-----------------------------------------------------------------------------
(* suggest_category *)

\* A sort that puts an item before the items of equal score already placed:
\* items of equal score come out in the reverse of the order they came in.
RECURSIVE sorted_unstable(_)
sorted_unstable(items) ==
    IF Len(items) = 0 THEN <<>>
    ELSE LET rest == sorted_unstable(SubSeq(items, 1, Len(items) - 1))
             x == items[Len(items)]
             n == Cardinality({i \in 1..Len(rest) : rest[i][2].score > x[2].score})
         IN  SubSeq(rest, 1, n) \o <<x>> \o SubSeq(rest, n + 1, Len(rest))

\* sorted(items, key=lambda x: x[1]['score'], reverse=True): a stable sort,
\* so items of equal score keep the order they came in.
RECURSIVE sorted_by_score_reverse(_)
sorted_by_score_reverse(items) ==
    IF Len(items) = 0 THEN <<>>
    ELSE LET rest == sorted_by_score_reverse(SubSeq(items, 1, Len(items) - 1))
             x == items[Len(items)]
             \* x goes after every item whose score is at least its own
             n == Cardinality({i \in 1..Len(rest) : rest[i][2].score >= x[2].score})
         IN  SubSeq(rest, 1, n) \o <<x>> \o SubSeq(rest, n + 1, Len(rest))

\* The rendering left in the case it came in.
prompt_text_as_is(parsed_components) == str(parsed_components)

\* str(parsed_components).lower()
prompt_text_of(parsed_components) == lower(str(parsed_components))

\* The body of the loop over CATEGORIES.items(): one category's score and reasons.
category_score(category, rules, parsed_components) ==
    LET subject_type == get(get(parsed_components, "subject", D(<<>>)), "type", None)
        mood == get(get(parsed_components, "mood", D(<<>>)), "emotion", None)
        action_energy == get(get(parsed_components, "action", D(<<>>)),
                             "energy_level", S("medium"))
        prompt_text == prompt_text_of(parsed_components)
        trigger_keywords == get(rules, "trigger_keywords", L(<<>>)).items
        subject_hit == subject_type \in Range(get(rules, "ideal_subjects", L(<<>>)).items)
        mood_hit == mood \in Range(get(rules, "compatible_moods", L(<<>>)).items)
        high_hit == /\ category \in {"kid_chaos", "mascot_theater"}
                    /\ action_energy \in {S("high"), S("extreme")}
        low_hit == /\ ~high_hit
                   /\ category \in {"health_halo", "premium_disruptor"}
                   /\ action_energy = S("low")
        keyword_hits == Cardinality({i \in 1..Len(trigger_keywords) :
                                        contains(prompt_text, trigger_keywords[i].s)})
    IN  [score |-> (IF subject_hit THEN 3 ELSE 0) + (IF mood_hit THEN 2 ELSE 0)
                   + (IF high_hit THEN 2 ELSE 0) + (IF low_hit THEN 2 ELSE 0)
                   + keyword_hits,
         reasons |->
            (IF subject_hit
             THEN <<"Subject type '" \o str(subject_type) \o "' is ideal for this category">>
             ELSE <<>>)
            \o (IF mood_hit
                THEN <<"Mood '" \o str(mood) \o "' aligns with category aesthetic">>
                ELSE <<>>)
            \o (IF high_hit THEN <<"High energy matches dynamic category">> ELSE <<>>)
            \o (IF low_hit THEN <<"Low energy suits minimalist aesthetic">> ELSE <<>>)]

suggest_category(parsed_components) ==
    LET scores == [i \in 1..Len(CATEGORIES.pairs) |->
                     <<CATEGORIES.pairs[i][1],
                       category_score(CATEGORIES.pairs[i][1], CATEGORIES.pairs[i][2],
                                      parsed_components)>>]
        ranked == sorted_by_score_reverse(scores)
    IN  [scores |-> D([i \in 1..Len(scores) |-> <<scores[i][1], N(scores[i][2].score)>>]),
         primary_suggestion |-> ranked[1][1],
         \* ranked[1:3]
         alternatives |-> [i \in 1..(IF Len(ranked) >= 3 THEN 2 ELSE Len(ranked) - 1)
                             |-> ranked[i + 1][1]],
         reasoning |-> IF ranked[1][2].reasons # <<>>
                       THEN join("; ", ranked[1][2].reasons)
                       ELSE "General compatibility"]

-----------------------------------------------------------------------------
(* Results of a call *)

Return(value) == [value |-> value, raised |-> FALSE]
Raise(type, message) == [raised |-> TRUE, error |-> [type |-> type, message |-> message]]

-----------------------------------------------------------------------------
(* get_category_rules, apply_transformations *)

get_category_rules(category) ==
    IF ~has(CATEGORIES, category)
    THEN LET available == StrList(keys(CATEGORIES))
         IN  Raise("ValueError",
                   "Unknown category: " \o category \o ". Available: " \o str(available))
    ELSE Return(item(CATEGORIES, category))

\* tools/transformer.py: each of subject, action, setting and colors is the
\* category's rule for the parsed field's discriminant, or a generic phrase
\* built from the raw value; effects and style_markers come from visual_dna;
\* typography exists only when the category defines it.
apply_category_transformation(parsed_components, rules, params) ==
    LET Rule(table, key, generic) ==
            LET tbl == get(rules, table, D(<<>>))
            IN  IF key.t = "str" /\ has(tbl, key.s) THEN item(tbl, key.s)
                ELSE IF key.t = "str" THEN S(generic \o " " \o key.s)
                ELSE S(generic)
        subject == get(get(parsed_components, "subject", D(<<>>)), "type", None)
        energy == get(get(parsed_components, "action", D(<<>>)), "energy_level", None)
        setting == get(get(parsed_components, "setting", D(<<>>)), "type", None)
        saturation == get(params, "color_saturation", None)
        visual_dna == get(rules, "visual_dna", L(<<>>))
    IN  D(<< <<"subject", Rule("subject_rules", subject, "subject")>>,
             <<"action", Rule("action_rules", energy, "action")>>,
             <<"setting", Rule("setting_rules", setting, "setting")>>,
             <<"colors", Rule("color_rules", saturation, "colors")>>,
             <<"effects", S(join(", ", [i \in 1..Len(visual_dna.items) |->
                                           visual_dna.items[i].s]))>>,
             <<"style_markers", visual_dna>> >>
          \o (IF has(rules, "typography")
              THEN << <<"typography", item(rules, "typography")>> >>
              ELSE <<>>))

apply_transformations(parsed_components, category, style_params) ==
    IF ~has(CATEGORIES, category)
    THEN Raise("ValueError", "Unknown category: " \o category)
    ELSE LET rules == item(CATEGORIES, category)
             \* style_params or {}
             params == IF style_params = None \/ style_params = D(<<>>)
                       THEN D(<<>>) ELSE style_params
         IN  Return(apply_category_transformation(parsed_components, rules, params))

-----------------------------------------------------------------------------
(* build_prompt_skeleton *)

\* data/templates.json: one template per category
TemplateOf(emphasis_order) == D(<< <<"emphasis_order", StrList(emphasis_order)>> >>)

TEMPLATES ==
    D(<< <<"mascot_theater",
           TemplateOf(<<"subject", "action", "colors", "typography", "style_markers">>)>>,
         <<"health_halo", TemplateOf(<<"subject", "setting", "colors">>)>>,
         <<"nostalgia_revival", TemplateOf(<<"colors", "subject", "typography">>)>>,
         <<"premium_disruptor", TemplateOf(<<"subject", "colors", "effects">>)>>,
         <<"kid_chaos", TemplateOf(<<"effects", "subject", "colors">>)>>,
         <<"transparent_honest", TemplateOf(<<"subject", "style_markers">>)>>,
         <<"adventure_fantasy", TemplateOf(<<"setting", "subject", "effects">>)>> >>)

\* tools/utils.py: the sections in the template's emphasis order, keeping
\* only the fields the transformed components have.
RECURSIVE order_by_importance(_, _, _)
order_by_importance(transformed_components, semantic_weights, emphasis_order) ==
    IF Len(emphasis_order) = 0 THEN D(<<>>)
    ELSE LET k == emphasis_order[1].s
             rest == order_by_importance(transformed_components, semantic_weights,
                                         Tail(emphasis_order))
         IN  IF has(transformed_components, k)
             THEN D(<< <<k, item(transformed_components, k)>> >> \o rest.pairs)
             ELSE rest

\* tools/utils.py: the category's negative_prompts joined into one string
generate_negative_prompt(category) ==
    LET negative_prompts == get(item(CATEGORIES, category), "negative_prompts", L(<<>>))
    IN  join(", ", [i \in 1..Len(negative_prompts.items) |-> negative_prompts.items[i].s])

\* The chain with its comparisons inclusive.
emphasis_of_inclusive(weight) ==
    IF weight >= 60 THEN F("1.3")
    ELSE IF weight >= 40 THEN F("1.15")
    ELSE IF weight >= 20 THEN F("1.0")
    ELSE F("0.85")

\* The if/elif chain over a component's weight.
emphasis_of(weight) ==
    IF weight > 60 THEN F("1.3")
    ELSE IF weight > 40 THEN F("1.15")
    ELSE IF weight > 20 THEN F("1.0")
    ELSE F("0.85")

RECURSIVE sum_len_str(_)
sum_len_str(values) ==
    IF Len(values) = 0 THEN 0
    ELSE Len(str(values[1])) + sum_len_str(Tail(values))

\* An estimate that divides each section's length by 4 and sums the quotients.
RECURSIVE sum_quarters(_)
sum_quarters(values) ==
    IF Len(values) = 0 THEN 0
    ELSE (Len(str(values[1])) \div 4) + sum_quarters(Tail(values))

estimate_tokens_per_section(sections) ==
    sum_quarters([i \in 1..Len(sections.pairs) |-> sections.pairs[i][2]])

\* sum(len(str(v)) for v in sections.values()) // 4
estimate_tokens(sections) ==
    sum_len_str([i \in 1..Len(sections.pairs) |-> sections.pairs[i][2]]) \div 4

build_prompt_skeleton(transformed_components, category, semantic_weights) ==
    IF ~has(TEMPLATES, category)
    THEN Raise("KeyError", repr(S(category)))
    ELSE LET template == item(TEMPLATES, category)
             ordered_sections == order_by_importance(transformed_components,
                                     semantic_weights, item(template, "emphasis_order").items)
             emphasis == D([i \in 1..Len(semantic_weights.pairs) |->
                              <<semantic_weights.pairs[i][1],
                                emphasis_of(semantic_weights.pairs[i][2].n)>>])
             negative == generate_negative_prompt(category)
         IN  Return([sections |-> ordered_sections,
                     template |-> template,
                     emphasis |-> emphasis,
                     negative_prompt |-> negative,
                     metadata |-> [category |-> category,
                                   estimated_tokens |-> estimate_tokens(ordered_sections),
                                   ready_for_synthesis |-> TRUE]])

-----------------------------------------------------------------------------
(* refine_component *)

\* skeleton['sections'][component_name] = new_value, moving the key to the end
overwrite_section_reinserts(sections, component_name, new_value) ==
    D(SelectSeq(sections.pairs, LAMBDA pair : pair[1] # component_name)
         \o << <<component_name, S(new_value)>> >>)

\* skeleton['sections'][component_name] = new_value
overwrite_section(sections, component_name, new_value) ==
    setitem(sections, component_name, S(new_value))

\* metadata with user_modifications, created empty when it is not there yet
with_user_modifications(metadata) ==
    IF "user_modifications" \in DOMAIN metadata THEN metadata
    ELSE metadata @@ ("user_modifications" :> <<>>)

\* Tracking that records a component once only.
track_modification_dedupes(metadata, component_name) ==
    LET tracked == with_user_modifications(metadata)
    IN  IF component_name \in Range(tracked["user_modifications"]) THEN tracked
        ELSE [tracked EXCEPT !["user_modifications"] = Append(@, component_name)]

\* Track user modifications
track_modification(metadata, component_name) ==
    [with_user_modifications(metadata) EXCEPT
        !["user_modifications"] = Append(@, component_name)]

\* The skeleton after the statements that follow the check.
refined(skel, component_name, new_value) ==
    LET sections == overwrite_section(skel.sections, component_name, new_value)
        metadata == [track_modification(skel.metadata, component_name) EXCEPT
                        !["estimated_tokens"] = estimate_tokens(sections)]
    IN  [skel EXCEPT !.sections = sections, !.metadata = metadata]

unknown_component(skel, component_name) ==
    LET available == StrList(keys(skel.sections))
    IN  Raise("ValueError", "Unknown component: " \o component_name
                                \o ". Available: " \o str(available))

\* refine_component without its check of the component name.
refine_component_unchecked(skel, component_name, new_value) ==
    [skeleton |-> refined(skel, component_name, new_value),
     result |-> Return(refined(skel, component_name, new_value))]

\* refine_component creating user_modifications before its check.
refine_component_tracks_first(skel, component_name, new_value) ==
    LET tracking == [skel EXCEPT !.metadata = with_user_modifications(@)]
    IN  IF ~has(skel.sections, component_name)
        THEN [skeleton |-> tracking, result |-> unknown_component(skel, component_name)]
        ELSE [skeleton |-> refined(skel, component_name, new_value),
              result |-> Return(refined(skel, component_name, new_value))]

\* What the call raised or returned, and the caller's skeleton after it:
\* the skeleton is changed in place and is also the return value.
refine_component(skel, component_name, new_value) ==
    IF ~has(skel.sections, component_name)
    THEN [skeleton |-> skel, result |-> unknown_component(skel, component_name)]
    ELSE [skeleton |-> refined(skel, component_name, new_value),
          result |-> Return(refined(skel, component_name, new_value))]

-----------------------------------------------------------------------------
(* generate_variants *)

param_sets ==
    << D(<< <<"name", S("Subtle")>>, <<"energy_level", F("0.5")>>,
            <<"color_saturation", S("pastel")>>, <<"composition_density", F("0.4")>> >>),
       D(<< <<"name", S("Balanced")>>, <<"energy_level", F("0.75")>>,
            <<"color_saturation", S("bright")>>, <<"composition_density", F("0.7")>> >>),
       D(<< <<"name", S("Intense")>>, <<"energy_level", F("1.0")>>,
            <<"color_saturation", S("neon")>>, <<"composition_density", F("1.0")>> >>),
       D(<< <<"name", S("Vintage")>>, <<"energy_level", F("0.6")>>,
            <<"color_saturation", S("muted")>>, <<"composition_density", F("0.5")>>,
            <<"era", S("1970s")>> >>),
       D(<< <<"name", S("Dramatic")>>, <<"energy_level", F("0.9")>>,
            <<"color_saturation", S("bold")>>, <<"composition_density", F("0.8")>> >>) >>

\* One pass of the loop body, for the i-th parameter set (i counts from 1).
variant(parsed_components, category, i) ==
    LET params == param_sets[i]
        transformed == apply_transformations(parsed_components, category, params)
    IN  IF transformed.raised THEN transformed
        ELSE IF ~has(parsed_components, "semantic_weights")
        THEN Raise("KeyError", repr(S("semantic_weights")))
        ELSE LET built == build_prompt_skeleton(transformed.value, category,
                                  item(parsed_components, "semantic_weights"))
             IN  IF built.raised THEN built
                 ELSE Return([skeleton |-> built.value,
                              style_params |-> params,
                              name |-> "Variant " \o ToString(i) \o " ("
                                          \o item(params, "name").s \o ")"])

\* generate_variants letting a count of 0 through.
generate_variants_from_zero(parsed_components, category, count) ==
    IF count < 0 \/ count > 5
    THEN Raise("ValueError", "Count must be between 1 and 5")
    ELSE LET passes == [i \in 1..count |-> variant(parsed_components, category, i)]
             failed == {i \in 1..count : passes[i].raised}
         IN  IF failed # {}
             THEN passes[CHOOSE i \in failed : \A j \in failed : i <= j]
             ELSE Return([i \in 1..count |-> passes[i].value])

generate_variants(parsed_components, category, count) ==
    IF count < 1 \/ count > 5
    THEN Raise("ValueError", "Count must be between 1 and 5")
    ELSE LET passes == [i \in 1..count |-> variant(parsed_components, category, i)]
             failed == {i \in 1..count : passes[i].raised}
         IN  IF failed # {}
             THEN passes[CHOOSE i \in failed : \A j \in failed : i <= j]
             ELSE Return([i \in 1..count |-> passes[i].value])

-----------------------------------------------------------------------------
(* Inputs the callers pass *)

\* How many refine calls may return on one skeleton.
MaxRefines == 2

NoSkeleton == [t |-> "NoSkeleton"]
NoCall == [op |-> "none"]
NoReturn == [value |-> None, raised |-> FALSE]

SubjectTypes == {Absent, "human", "animal"}
Emotions == {Absent, "playful", "calm"}
EnergyLevels == {Absent, "low", "medium", "high", "extreme"}
AttributeLists == {<<>>, <<"neon">>, <<"NEON Party", "neon">>, <<"retro", "gold">>}

\* Parsed prompts for suggest_category.
ParsedPrompts ==
    {ParsedOf(type, emotion, energy, attributes, WeightsOf(35, 30, 25)) :
        type \in SubjectTypes, emotion \in Emotions,
        energy \in EnergyLevels, attributes \in AttributeLists}

\* Parsed prompts for the tools that transform.
ParsedSamples ==
    {ParsedOf("animal", "playful", "high", <<"neon">>, WeightsOf(61, 40, 20)),
     ParsedOf("human", Absent, "low", <<>>, WeightsOf(60, 41, 21)),
     ParsedOf(Absent, "calm", Absent, <<"retro">>, WeightsOf(100, 0, 50))}

CategoryIds == Range(keys(CategoriesJson))
CategoryArgs == CategoryIds \cup {"bogus"}
VariantCategoryArgs == {"mascot_theater", "nostalgia_revival", "kid_chaos", "bogus"}
CountArgs == (0 - 1)..7
StyleParamArgs == {None, D(<<>>), param_sets[1], param_sets[4]}

\* Transformed components and weights for build_prompt_skeleton.
TransformedArgs ==
    {apply_category_transformation(
         ParsedOf("animal", "playful", "high", <<>>, D(<<>>)),
         item(CategoriesJson, "mascot_theater"), param_sets[1]),
     apply_category_transformation(
         ParsedOf("human", Absent, "low", <<>>, D(<<>>)),
         item(CategoriesJson, "kid_chaos"), D(<<>>))}
SkeletonCategoryArgs == {"mascot_theater", "kid_chaos", "bogus"}
WeightArgs == {WeightsOf(61, 40, 20), WeightsOf(60, 41, 21)}
WeightRange == 0..100
BandEdges == {0, 20, 21, 40, 41, 60, 61, 100}

ComponentArgs == {"subject", "colors", "style_markers", "mood"}
ValueArgs == {"", "a red fox"}

-----------------------------------------------------------------------------
(* The tools as actions *)

Init ==
    /\ CATEGORIES \in RuleStores
    /\ skeleton = NoSkeleton
    /\ pc = "idle"
    /\ call = NoCall
    /\ ret = NoReturn
    /\ history = <<>>

\* The caller places a tool call.
Call(request) ==
    /\ pc = "idle"
    /\ pc' = "called"
    /\ call' = request
    /\ ret' = NoReturn
    /\ UNCHANGED <<CATEGORIES, skeleton, history>>

Pending(op) == pc = "called" /\ call.op = op

SuggestCategory ==
    /\ Pending("suggest_category")
    /\ ret' = Return(suggest_category(call.parsed_components))
    /\ pc' = "idle"
    /\ UNCHANGED <<CATEGORIES, skeleton, call, history>>

GetCategoryRules ==
    /\ Pending("get_category_rules")
    /\ ret' = get_category_rules(call.category)
    /\ pc' = "idle"
    /\ UNCHANGED <<CATEGORIES, skeleton, call, history>>

ApplyTransformations ==
    /\ Pending("apply_transformations")
    /\ ret' = apply_transformations(call.parsed_components, call.category,
                                    call.style_params)
    /\ pc' = "idle"
    /\ UNCHANGED <<CATEGORIES, skeleton, call, history>>

\* The caller keeps the skeleton the call returns.
BuildPromptSkeleton ==
    /\ Pending("build_prompt_skeleton")
    /\ ret' = build_prompt_skeleton(call.transformed_components, call.category,
                                    call.semantic_weights)
    /\ skeleton' = IF ret'.raised THEN skeleton ELSE ret'.value
    /\ history' = <<>>
    /\ pc' = "idle"
    /\ UNCHANGED <<CATEGORIES, call>>

\* The caller passes the skeleton it holds, which the call changes in place.
RefineComponent ==
    /\ Pending("refine_component")
    /\ LET done == refine_component(skeleton, call.component_name, call.new_value)
       IN  /\ ret' = done.result
           /\ skeleton' = done.skeleton
           /\ history' = IF done.result.raised THEN history
                         ELSE Append(history, call.component_name)
    /\ pc' = "idle"
    /\ UNCHANGED <<CATEGORIES, call>>

GenerateVariants ==
    /\ Pending("generate_variants")
    /\ ret' = generate_variants(call.parsed_components, call.category, call.count)
    /\ pc' = "idle"
    /\ UNCHANGED <<CATEGORIES, skeleton, call, history>>

-----------------------------------------------------------------------------
(* Callers *)

BuildCall(t, c, w) ==
    [category |-> c, transformed_components |-> t, semantic_weights |-> w,
     op |-> "build_prompt_skeleton"]

RefineCall(c, v) == [component_name |-> c, new_value |-> v, op |-> "refine_component"]

\* A caller that assembles one skeleton and refines it.
CallBuild ==
    /\ skeleton = NoSkeleton
    /\ \E t \in TransformedArgs, c \in SkeletonCategoryArgs, w \in WeightArgs :
          Call(BuildCall(t, c, w))

CallRefine ==
    /\ skeleton # NoSkeleton
    /\ Len(history) < MaxRefines
    /\ \E c \in ComponentArgs, v \in ValueArgs : Call(RefineCall(c, v))

Next == CallBuild \/ CallRefine \/ BuildPromptSkeleton \/ RefineComponent

Spec == Init /\ [][Next]_vars

\* A caller that assembles with every weight in range.
CallBuildWeights ==
    /\ skeleton = NoSkeleton
    /\ \E t \in TransformedArgs, a \in WeightRange, b \in BandEdges :
          Call(BuildCall(t, "kid_chaos", D(<< <<"subject", N(a)>>, <<"action", N(b)>> >>)))

NextEmphasis == CallBuildWeights \/ BuildPromptSkeleton

SpecEmphasis == Init /\ [][NextEmphasis]_vars

\* A caller that asks for suggestions.
CallSuggest ==
    \E p \in ParsedPrompts :
        Call([parsed_components |-> p, op |-> "suggest_category"])

NextSuggest == CallSuggest \/ SuggestCategory

SpecSuggest == Init /\ [][NextSuggest]_vars

\* A caller that transforms and generates variants.
CallGetRules ==
    \E c \in CategoryArgs : Call([category |-> c, op |-> "get_category_rules"])

CallApply ==
    \E p \in ParsedSamples, c \in CategoryArgs, sp \in StyleParamArgs :
        Call([parsed_components |-> p, category |-> c, style_params |-> sp,
              op |-> "apply_transformations"])

CallVariants ==
    \E p \in ParsedSamples, c \in VariantCategoryArgs, n \in CountArgs :
        Call([parsed_components |-> p, category |-> c, count |-> n,
              op |-> "generate_variants"])

NextTransform ==
    \/ CallGetRules \/ CallApply \/ CallVariants
    \/ GetCategoryRules \/ ApplyTransformations \/ GenerateVariants

SpecTransform == Init /\ [][NextTransform]_vars

-----------------------------------------------------------------------------
(* Properties of refine_component and build_prompt_skeleton *)

\* The call of tool op has run: ret is what it returned or raised.
Ran(op) == pc = "idle" /\ call.op = op

\* The step in which the pending call of tool op runs.
Runs(op) == Pending(op) /\ pc' = "idle"

Tracked(skel) == "user_modifications" \in DOMAIN skel.metadata

\* C1: refine_component with a component name that is not a key of the
\* skeleton's sections raises the unknown-component ValueError, whose message
\* lists every section name, and leaves the whole skeleton as it was.
C1_UnknownComponentLeavesSkeleton ==
    [][(Runs("refine_component") /\ ~has(skeleton.sections, call.component_name))
          => /\ ret'.raised
             /\ ret'.error.type = "ValueError"
             /\ contains(ret'.error.message, "Unknown component: " \o call.component_name)
             /\ \A k \in Range(keys(skeleton.sections)) :
                   contains(ret'.error.message, "'" \o k \o "'")
             /\ skeleton' = skeleton]_vars

\* A refine call failed on a skeleton that an earlier refine call had changed.
C1_Witness ==
    /\ Ran("refine_component")
    /\ ret.raised
    /\ history # <<>>
    /\ Tracked(skeleton)

RECURSIVE TotalChars(_, _)
TotalChars(sections, n) ==
    IF n = 0 THEN 0
    ELSE Len(str(sections.pairs[n][2])) + TotalChars(sections, n - 1)

RECURSIVE QuarteredChars(_, _)
QuarteredChars(sections, n) ==
    IF n = 0 THEN 0
    ELSE (Len(str(sections.pairs[n][2])) \div 4) + QuarteredChars(sections, n - 1)

\* C3: in every skeleton that assemble and refine can produce,
\* estimated_tokens is the summed length of all current section texts,
\* integer-divided by 4 once.
C3_EstimatedTokens ==
    skeleton # NoSkeleton
        => skeleton.metadata.estimated_tokens
              = TotalChars(skeleton.sections, Len(skeleton.sections.pairs)) \div 4

\* A refined skeleton where dividing section by section gives another number.
C3_Witness ==
    /\ Ran("refine_component")
    /\ ~ret.raised
    /\ TotalChars(skeleton.sections, Len(skeleton.sections.pairs)) \div 4
          # QuarteredChars(skeleton.sections, Len(skeleton.sections.pairs))

\* C4: a successful refine of component c changes only sections[c],
\* user_modifications and estimated_tokens: emphasis, template,
\* negative_prompt, category, ready_for_synthesis, every other section's text
\* and the section keys and their order stay.
C4_RefineFrame ==
    [][(Runs("refine_component") /\ ~ret'.raised)
          => /\ skeleton'.emphasis = skeleton.emphasis
             /\ skeleton'.template = skeleton.template
             /\ skeleton'.negative_prompt = skeleton.negative_prompt
             /\ DOMAIN skeleton' = DOMAIN skeleton
             /\ DOMAIN skeleton'.metadata
                   = DOMAIN skeleton.metadata \cup {"user_modifications"}
             /\ \A f \in DOMAIN skeleton.metadata
                          \ {"user_modifications", "estimated_tokens"} :
                   skeleton'.metadata[f] = skeleton.metadata[f]
             /\ keys(skeleton'.sections) = keys(skeleton.sections)
             /\ \A k \in Range(keys(skeleton.sections)) \ {call.component_name} :
                   item(skeleton'.sections, k) = item(skeleton.sections, k)]_vars

\* A successful refine of a section that is not the last one, with others around it.
C4_Witness ==
    /\ Ran("refine_component")
    /\ ~ret.raised
    /\ Len(skeleton.sections.pairs) >= 3
    /\ skeleton.sections.pairs[1][1] = call.component_name
    /\ item(skeleton.sections, call.component_name) = S(call.new_value)

-----------------------------------------------------------------------------
(* Properties of the emphasis bands *)

\* The band the weight falls in, as the bands are written.
Band(w) ==
    CASE w > 60 -> "1.3"
      [] 40 < w /\ w <= 60 -> "1.15"
      [] 20 < w /\ w <= 40 -> "1.0"
      [] w <= 20 -> "0.85"

\* C6: for every component of the weights passed to build_prompt_skeleton
\* and every integer weight in 0..100, the skeleton's emphasis is 1.3 above
\* 60, 1.15 above 40 up to 60, 1.0 above 20 up to 40, and 0.85 up to 20; so
\* 60 gives 1.15, 40 gives 1.0, 20 gives 0.85, and no other value occurs.
C6_EmphasisBands ==
    (Ran("build_prompt_skeleton") /\ ~ret.raised)
        => LET weights == call.semantic_weights
               emphasis == ret.value.emphasis
           IN  /\ keys(emphasis) = keys(weights)
               /\ \A i \in 1..Len(weights.pairs) :
                     LET w == weights.pairs[i][2].n
                         e == item(emphasis, weights.pairs[i][1])
                     IN  /\ e = F(Band(w))
                         /\ e \in {F("0.85"), F("1.0"), F("1.15"), F("1.3")}
                         /\ (w = 60 => e = F("1.15"))
                         /\ (w = 40 => e = F("1.0"))
                         /\ (w = 20 => e = F("0.85"))

\* A skeleton assembled with one weight exactly 60 and another exactly 40.
C6_Witness ==
    /\ Ran("build_prompt_skeleton")
    /\ ~ret.raised
    /\ item(call.semantic_weights, "subject") = N(60)
    /\ item(call.semantic_weights, "action") = N(40)
    /\ item(skeleton.emphasis, "subject") = F("1.15")

-----------------------------------------------------------------------------
(* Properties of suggest_category *)

\* The score suggest_category reported for a category.
Reported(c) == item(ret.value.scores, c).n

\* The place of a category in the Rule Store's declaration order.
Declared(c) == CHOOSE i \in 1..Len(CATEGORIES.pairs) : CATEGORIES.pairs[i][1] = c

Outranks(a, b) ==
    \/ Reported(a) > Reported(b)
    \/ Reported(a) = Reported(b) /\ Declared(a) < Declared(b)

\* 1 for the category no other outranks, 2 for the next, and so on.
Place(c) == 1 + Cardinality({d \in Range(keys(CATEGORIES)) : Outranks(d, c)})

\* C7: suggest_category ranks by descending score, ties in declaration
\* order: the primary suggestion is the first-declared category of maximum
\* score and the alternatives are exactly the next two of that ranking,
\* distinct from it and from each other.
C7_RankingIsStable ==
    Ran("suggest_category")
        => LET primary == ret.value.primary_suggestion
               alternatives == ret.value.alternatives
           IN  /\ Place(primary) = 1
               /\ Len(alternatives) = 2
               /\ Place(alternatives[1]) = 2
               /\ Place(alternatives[2]) = 3
               /\ Cardinality({primary, alternatives[1], alternatives[2]}) = 3

\* The two best categories tie on a score above zero, and so do the third
\* and a category left out.
C7_Witness ==
    /\ Ran("suggest_category")
    /\ Reported(ret.value.primary_suggestion) > 0
    /\ Reported(ret.value.primary_suggestion) = Reported(ret.value.alternatives[1])
    /\ \E c \in Range(keys(CATEGORIES)) \ {ret.value.primary_suggestion} :
          /\ c \notin Range(ret.value.alternatives)
          /\ Reported(c) = Reported(ret.value.alternatives[2])

\* The points of the first three rules for category c with its rules.
RulePoints(c, rules, parsed) ==
    LET subject == item(parsed, "subject")
        mood == item(parsed, "mood")
        action == item(parsed, "action")
        energy == IF has(action, "energy_level") THEN item(action, "energy_level").s
                  ELSE "medium"
    IN  (IF /\ has(subject, "type")
            /\ has(rules, "ideal_subjects")
            /\ item(subject, "type") \in Range(item(rules, "ideal_subjects").items)
         THEN 3 ELSE 0)
        + (IF /\ has(mood, "emotion")
              /\ has(rules, "compatible_moods")
              /\ item(mood, "emotion") \in Range(item(rules, "compatible_moods").items)
           THEN 2 ELSE 0)
        + (IF \/ c \in {"kid_chaos", "mascot_theater"} /\ energy \in {"high", "extreme"}
              \/ c \in {"health_halo", "premium_disruptor"} /\ energy = "low"
           THEN 2 ELSE 0)

\* The trigger_keywords list of the rules, as strings.
Listed(rules) ==
    IF has(rules, "trigger_keywords")
    THEN [i \in 1..Len(item(rules, "trigger_keywords").items) |->
             item(rules, "trigger_keywords").items[i].s]
    ELSE <<>>

-----------------------------------------------------------------------------
(* Properties of apply_transformations and generate_variants *)

\* C9: apply_transformations, and generate_variants where it calls it (a
\* count in 1..5), given a category that is not in the Rule Store, raise the
\* unknown-category error, whose message holds every valid category id, and
\* return nothing.
C9_UnknownCategoryListsValidIds ==
    (/\ \/ Ran("apply_transformations")
        \/ Ran("generate_variants") /\ call.count \in 1..5
     /\ ~has(CATEGORIES, call.category))
        => /\ ret.raised
           /\ ret.error.type = "ValueError"
           /\ contains(ret.error.message, "Unknown category: " \o call.category)
           /\ \A c \in Range(keys(CATEGORIES)) : contains(ret.error.message, c)

\* The names of the presets, in their order.
PresetNames == <<"Subtle", "Balanced", "Intense", "Vintage", "Dramatic">>

Digits == <<"1", "2", "3", "4", "5">>

\* C10: generate_variants raises a range error, producing nothing, when
\* count < 1 or count > 5; for a known category and a count in 1..5 it
\* returns exactly count entries, the i-th named "Variant i (P_i)" for the
\* presets Subtle, Balanced, Intense, Vintage, Dramatic in this order, each
\* with that preset's style params and a skeleton of the category whose
\* emphasis comes from parsed.semantic_weights.
C10_Variants ==
    Ran("generate_variants")
        => LET count == call.count
               weights == item(call.parsed_components, "semantic_weights")
           IN  /\ (count < 1 \/ count > 5)
                     => /\ ret.raised
                        /\ ret.error = [type |-> "ValueError",
                                        message |-> "Count must be between 1 and 5"]
               /\ (count >= 1 /\ count <= 5 /\ has(CATEGORIES, call.category))
                     => /\ ~ret.raised
                        /\ Len(ret.value) = count
                        /\ \A i \in 1..count :
                              LET entry == ret.value[i]
                              IN  /\ entry.name = "Variant " \o Digits[i] \o " ("
                                                     \o PresetNames[i] \o ")"
                                  /\ item(entry.style_params, "name") = S(PresetNames[i])
                                  /\ has(entry.style_params, "energy_level")
                                  /\ has(entry.style_params, "color_saturation")
                                  /\ has(entry.style_params, "composition_density")
                                  /\ entry.skeleton.metadata.category = call.category
                                  /\ keys(entry.skeleton.emphasis) = keys(weights)
                                  /\ \A j \in 1..Len(weights.pairs) :
                                        item(entry.skeleton.emphasis, weights.pairs[j][1])
                                           = F(Band(weights.pairs[j][2].n))

\* Five variants came back for a known category.
C10_Witness ==
    /\ Ran("generate_variants")
    /\ ~ret.raised
    /\ Len(ret.value) = 5
    /\ ret.value[4].name = "Variant 4 (Vintage)"
    /\ has(ret.value[4].style_params, "era")

=============================================================================
